---- MODULE Spec2Model ----
(***************************************************************************)
(* Model of generate_sample_data.py: the sample quiz-data generator of the *)
(* Apex Maths radar.  simulate_student_performance is modelled one loop    *)
(* step per action, generate_sample_data one statement group per action.   *)
(*                                                                         *)
(* Representation:                                                         *)
(*   - probabilities, base_skill and random.random() are in hundredths;    *)
(*   - a datetime is the number of seconds since 2026-02-01T00:00:00, and  *)
(*     its isoformat() is the field tuple <<year, month, day, h, m, s>>,   *)
(*     which orders as the ISO-8601 string does;                           *)
(*   - the process-wide generator of the random module is a seeded stream: *)
(*     the seed is chosen in the initial state, every draw reads the       *)
(*     stream and advances it.  The low four bits of the stream decide a   *)
(*     randint(15, 30): with a stride that is a multiple of 16 they change *)
(*     only when the stream wraps around, once in 432 draws, so a student  *)
(*     simulated from a fresh seed k has the constant durations 15 + k     *)
(*     (all 15 s ... all 30 s) and later students of a run have others;    *)
(*     with the odd stride the durations change at every draw.             *)
(***************************************************************************)
EXTENDS Integers, Sequences, FiniteSets, TLC

VARIABLES
    pc,             \* position in the program
    rng,            \* state of the random module: [x, stride]
    \* generate_sample_data
    num_students,   \* the argument
    i,              \* the loop variable of the student loop
    student_id, student_name,
    all_rows,       \* the list of row dicts
    returned,       \* the responses each call of the simulator returned (line 122)
    file,           \* the output file: [exists, lines]
    stdout,         \* the printed lines
    students,       \* list(students)[:3] of the summary
    sid_k,          \* position of the summary loop in it
    \* simulate_student_performance
    student_grade, base_skill,      \* the arguments
    responses, stopped_early,       \* the two results
    current_time,
    grade, comp_i, q_type, seq      \* the four loop variables

genVars == <<num_students, i, student_id, student_name, all_rows, returned,
             file, stdout, students, sid_k>>
simVars == <<student_grade, base_skill, responses, stopped_early,
             current_time, grade, comp_i, q_type, seq>>
vars == <<pc, rng, genVars, simVars>>

----------------------------------------------------------------------------
(* Bounds of the model *)

MaxStudents == 4
MaxSeed == 15
MaxGenSeed == 3

----------------------------------------------------------------------------
(* Module-level data *)

GRADE_COMPETENCIES ==
    [g \in 4..12 |->
        CASE g = 4  -> <<"NUM-MultiDigit", "COMP-Advanced", "MEAS-Standard", "GEOM-Reasoning">>
          [] g = 5  -> <<"COMP-Advanced", "NUM-Large", "NUM-FracDec", "MEAS-Advanced">>
          [] g = 6  -> <<"NUM-FracDec", "DATA-Represent", "NUM-Theory", "RATIO-Proportion">>
          [] g = 7  -> <<"RATIO-Proportion", "ALG-PreAlg", "GEOM-Advanced", "NUM-Theory">>
          [] g = 8  -> <<"ALG-PreAlg", "GEOM-Advanced", "NUM-AdvSystems", "GEOM-Coord">>
          [] g = 9  -> <<"ALG-Manipulation", "FUNC-Relationships", "GEOM-Coord", "GEOM-Advanced">>
          [] g = 10 -> <<"ALG-Manipulation", "FUNC-Relationships", "NUM-AdvSystems", "GEOM-Trig">>
          [] g = 11 -> <<"FUNC-Advanced", "CALC-Foundations", "GEOM-Trig", "DATA-Stats">>
          [] g = 12 -> <<"FUNC-Advanced", "CALC-Foundations", "DATA-Stats", "GEOM-Trig">>]

QUESTIONS_PER_COMPETENCY == 6

FIRST_NAMES ==
    <<"Thabo", "Lerato", "Sipho", "Naledi", "Johan", "Fatima", "Ayesha",
      "Pieter", "Zanele", "Mandla", "Caitlin", "Ravi", "Lindiwe", "James",
      "Precious", "David", "Neo", "Palesa", "Mohammed", "Sarah">>

LAST_NAMES ==
    <<"Nkosi", "Dlamini", "Van der Merwe", "Pillay", "Mokoena", "Smith",
      "Ndlovu", "Botha", "Govender", "Molefe", "Williams", "Tshabalala">>

FirstGrade == 4
LastGrade == 12

\* for q_type in [1, 2, 3]: the last type / for seq in [1, 2]: the last sequence
LastType == 3
LastSeq == 2

----------------------------------------------------------------------------
(* Formatting *)

Pad2(n) == IF n < 10 THEN "0" \o ToString(n) ELSE ToString(n)

Pad3(n) == IF n < 10 THEN "00" \o ToString(n)
           ELSE IF n < 100 THEN "0" \o ToString(n) ELSE ToString(n)

\* (an identifier that leaves the sequence number out)
question_id_without_seq(g, competency, t, s) ==
    "G" \o ToString(g) \o "_" \o competency \o "_T" \o ToString(t)

generate_question_id(g, competency, t, s) ==
    "G" \o ToString(g) \o "_" \o competency \o "_T" \o ToString(t) \o "_" \o Pad2(s)

GradeTag(g) == "Grade-" \o ToString(g)

TypeTag(t) == "Type-" \o ToString(t)

StudentId(k) == "STU" \o Pad3(k + 1)

----------------------------------------------------------------------------
(* The simulated clock *)

\* datetime(2026, 2, 1, 9, 0, 0)
start_time == 9 * 3600

\* (a nine-minute budget)
time_limit_short == 9 * 60

time_limit_seconds == 90 * 60

\* datetime.isoformat(), as its fields (valid within the day 2026-02-01)
isoformat(t) == <<2026, 2, 1, t \div 3600, (t % 3600) \div 60, t % 60>>

\* (current_time - start_time).total_seconds()
Elapsed(t) == t - start_time

\* (the budget compared with > in place of >=)
TimeLimitExceeded(elapsed) == elapsed > time_limit_seconds

\* if elapsed >= time_limit_seconds: break
TimeLimitReached(elapsed) == elapsed >= time_limit_seconds

----------------------------------------------------------------------------
(* The random module *)

RngModulus == 16 * 16000 - 1

Strides == {16 * 37, 16 * 37 + 1}

\* the seeds of a direct call of the simulator / of a whole generation run
Seeds == {[x |-> k, stride |-> s] : k \in 0..MaxSeed, s \in Strides}
GenSeeds == {[x |-> 5 * k, stride |-> s] : k \in 0..MaxGenSeed, s \in Strides}

Advance(r) == [r EXCEPT !.x = (r.x + r.stride) % RngModulus]

\* random.random(), in hundredths: a value of 0..99
random_random(r) == (r.x \div 16) % 100

\* random.randint(a, b): an integer of a..b
random_randint(r, a, b) == a + (r.x % (b - a + 1))

\* random.choice(s)
random_choice(r, s) == s[1 + (r.x % Len(s))]

\* random.uniform(a, b), in hundredths
random_uniform(r, a, b) == a + (r.x % (b - a + 1))

----------------------------------------------------------------------------
(* simulate_student_performance *)

Max(a, b) == IF a >= b THEN a ELSE b
Min(a, b) == IF a <= b THEN a ELSE b

\* The probability of a correct answer, in hundredths
prob_correct(g, sg, bs, t) ==
    LET grade_diff == g - sg
        byDiff == IF grade_diff <= -2 THEN 95
                  ELSE IF grade_diff <= 0 THEN bs + 10
                  ELSE IF grade_diff = 1 THEN bs - 5
                  ELSE IF grade_diff = 2 THEN bs - 15
                  ELSE Max(25, bs - grade_diff * 10)
        byType == IF t = 3 THEN byDiff - 5 ELSE byDiff
    IN  Max(15, Min(98, byType))

\* (a duration without the per-grade term)
time_per_q_flat(r, g) == random_randint(r, 15, 30)

\* time_per_q = random.randint(15, 30) + (grade - 4) * 3
time_per_q(r, g) == random_randint(r, 15, 30) + (g - 4) * 3

\* (the timestamp taken before the clock is advanced)
ResponseTimeBefore(before, after) == isoformat(before)

\* The timestamp a response carries, given the clock before and after the
\* question's duration was added
ResponseTime(before, after) == isoformat(after)

Response(g, comp, t, s, is_correct, stamp) ==
    [question_id    |-> generate_question_id(g, comp, t, s),
     grade_tag      |-> GradeTag(g),
     competency_tag |-> comp,
     type_tag       |-> TypeTag(t),
     is_correct     |-> IF is_correct THEN 1 ELSE 0,
     timestamp      |-> stamp]

\* (an inner loop that asks one question per type)
NextQuestionOnePerType(t, s) == <<t + 1, 1>>

\* The next (q_type, seq) of the two inner loops; q_type > LastType: both done
NextQuestion(t, s) == IF s < LastSeq THEN <<t, s + 1>> ELSE <<t + 1, 1>>

\* for grade in range(4, 13): competencies = GRADE_COMPETENCIES[grade]
EnterGrade ==
    /\ pc = "sim_grade"
    /\ grade <= LastGrade
    /\ comp_i' = 1
    /\ pc' = "sim_comp"
    /\ UNCHANGED <<rng, genVars, student_grade, base_skill, responses,
                   stopped_early, current_time, grade, q_type, seq>>

\* the grade loop is exhausted: return responses, False
ExitGradeLoop ==
    /\ pc = "sim_grade"
    /\ grade > LastGrade
    /\ stopped_early' = FALSE
    /\ pc' = "sim_return"
    /\ UNCHANGED <<rng, genVars, student_grade, base_skill, responses,
                   current_time, grade, comp_i, q_type, seq>>

\* for comp in competencies: elapsed >= time_limit_seconds: break
TimeLimitBreak ==
    /\ pc = "sim_comp"
    /\ comp_i <= Len(GRADE_COMPETENCIES[grade])
    /\ TimeLimitReached(Elapsed(current_time))
    /\ grade' = grade + 1
    /\ pc' = "sim_grade"
    /\ UNCHANGED <<rng, genVars, student_grade, base_skill, responses,
                   stopped_early, current_time, comp_i, q_type, seq>>

\* for comp in competencies: the budget is left, the inner loops start
BeginCompetency ==
    /\ pc = "sim_comp"
    /\ comp_i <= Len(GRADE_COMPETENCIES[grade])
    /\ ~TimeLimitReached(Elapsed(current_time))
    /\ q_type' = 1
    /\ seq' = 1
    /\ pc' = "sim_question"
    /\ UNCHANGED <<rng, genVars, student_grade, base_skill, responses,
                   stopped_early, current_time, grade, comp_i>>

\* for comp in competencies: the list is exhausted, next grade
EndGrade ==
    /\ pc = "sim_comp"
    /\ comp_i > Len(GRADE_COMPETENCIES[grade])
    /\ grade' = grade + 1
    /\ pc' = "sim_grade"
    /\ UNCHANGED <<rng, genVars, student_grade, base_skill, responses,
                   stopped_early, current_time, comp_i, q_type, seq>>

\* the body of the two inner loops: one question answered
AnswerQuestion ==
    /\ pc = "sim_question"
    /\ LET comp == GRADE_COMPETENCIES[grade][comp_i]
           p == prob_correct(grade, student_grade, base_skill, q_type)
           is_correct == random_random(rng) < p
           r2 == Advance(rng)
           after == current_time + time_per_q(r2, grade)
           nxt == NextQuestion(q_type, seq)
       IN  /\ rng' = Advance(r2)
           /\ current_time' = after
           /\ responses' = Append(responses,
                  Response(grade, comp, q_type, seq, is_correct,
                           ResponseTime(current_time, after)))
           /\ IF nxt[1] <= LastType
              THEN /\ q_type' = nxt[1]
                   /\ seq' = nxt[2]
                   /\ UNCHANGED <<pc, comp_i>>
              ELSE /\ comp_i' = comp_i + 1
                   /\ pc' = "sim_comp"
                   /\ UNCHANGED <<q_type, seq>>
    /\ UNCHANGED <<genVars, student_grade, base_skill, stopped_early, grade>>

SimNext ==
    \/ EnterGrade
    \/ ExitGradeLoop
    \/ TimeLimitBreak
    \/ BeginCompetency
    \/ EndGrade
    \/ AnswerQuestion

\* simulate_student_performance called on its own: the state after its first
\* four statements, for every student grade, three base skills and every seed
SimInit ==
    /\ pc = "sim_grade"
    /\ rng \in Seeds
    /\ num_students = 0 /\ i = 0 /\ student_id = "" /\ student_name = ""
    /\ all_rows = <<>> /\ returned = <<>>
    /\ file = [exists |-> FALSE, lines |-> <<>>]
    /\ stdout = <<>> /\ students = <<>> /\ sid_k = 0
    /\ student_grade \in FirstGrade..LastGrade
    /\ base_skill \in {50, 70, 90}
    /\ responses = <<>>
    /\ stopped_early = FALSE
    /\ current_time = start_time
    /\ grade = FirstGrade
    /\ comp_i = 0 /\ q_type = 0 /\ seq = 0

SpecSim == SimInit /\ [][SimNext]_vars

----------------------------------------------------------------------------
(* generate_sample_data *)

fieldnames ==
    <<"student_id", "student_name", "student_grade_level",
      "question_id", "grade_tag", "competency_tag", "type_tag",
      "is_correct", "timestamp">>

\* {'student_id': ..., 'student_name': ..., 'student_grade_level': ..., **resp}
Row(sid, name, sg, resp) ==
    [student_id          |-> sid,
     student_name        |-> name,
     student_grade_level |-> sg,
     question_id         |-> resp.question_id,
     grade_tag           |-> resp.grade_tag,
     competency_tag      |-> resp.competency_tag,
     type_tag            |-> resp.type_tag,
     is_correct          |-> resp.is_correct,
     timestamp           |-> resp.timestamp]

\* (the rows of a student put in front of the earlier ones)
FlattenInFront(rows, sid, name, sg, resps) ==
    [k \in 1..Len(resps) |-> Row(sid, name, sg, resps[k])] \o rows

\* for resp in responses: all_rows.append({...})
Flatten(rows, sid, name, sg, resps) ==
    rows \o [k \in 1..Len(resps) |-> Row(sid, name, sg, resps[k])]

\* (the file written whatever the rows)
HasRowsAlways(rows) == TRUE

\* if all_rows:
HasRows(rows) == rows # <<>>

\* csv.DictWriter: the values of one row in the order of fieldnames
CsvLine(row) ==
    <<row.student_id, row.student_name, row.student_grade_level,
      row.question_id, row.grade_tag, row.competency_tag, row.type_tag,
      row.is_correct, row.timestamp>>

\* writer.writeheader(); writer.writerows(all_rows)
CsvLines(rows) == <<fieldnames>> \o [k \in 1..Len(rows) |-> CsvLine(rows[k])]

\* int(r['grade_tag'].split('-')[1])
GradeOfTag(tag) == CHOOSE g \in FirstGrade..LastGrade : GradeTag(g) = tag

\* f"{x:.0f}" of x = n / d: the nearest integer, a tie to the even one
Round0(n, d) ==
    LET q == n \div d
        r == n % d
    IN  IF 2 * r < d THEN q
        ELSE IF 2 * r > d THEN q + 1
        ELSE IF q % 2 = 0 THEN q ELSE q + 1

\* sum(r['is_correct'] for r in student_rows[lo..hi]), summed by halves
RECURSIVE SumCorrectIn(_, _, _)
SumCorrectIn(rows, lo, hi) ==
    IF lo > hi THEN 0
    ELSE IF lo = hi THEN rows[lo].is_correct
    ELSE LET mid == (lo + hi) \div 2
         IN  SumCorrectIn(rows, lo, mid) + SumCorrectIn(rows, mid + 1, hi)

SumCorrect(rows) == SumCorrectIn(rows, 1, Len(rows))

\* max(int(r['grade_tag'].split('-')[1]) for r in student_rows)
MaxGrade(rows) ==
    LET gs == {GradeOfTag(rows[k].grade_tag) : k \in 1..Len(rows)}
    IN  CHOOSE m \in gs : \A g \in gs : g <= m

\* [r for r in all_rows if r['student_id'] == sid]
StudentRows(rows, sid) == SelectSeq(rows, LAMBDA r : r.student_id = sid)

\* the summary line of one student (total > 0)
SummaryLine(sid, student_rows) ==
    LET correct == SumCorrect(student_rows)
        total == Len(student_rows)
    IN  "  " \o sid \o ": " \o ToString(correct) \o "/" \o ToString(total)
        \o " correct (" \o ToString(Round0(100 * correct, total))
        \o "%), reached Grade " \o ToString(MaxGrade(student_rows))

\* set(row['student_id'] for row in all_rows)
StudentIdSet(rows) == {rows[k].student_id : k \in 1..Len(rows)}

\* list(students): the elements of a set in any of the orders its
\* iteration can have (string hashes differ from process to process)
ListOrders(S) ==
    {o \in [1..Cardinality(S) -> S] : \A a, b \in 1..Cardinality(S) : o[a] = o[b] => a = b}

\* list(students)[:3]
FirstThree(o) == SubSeq(o, 1, Min(3, Len(o)))

\* for i in range(num_students): lines 111-120, and the entry of the call
\* of simulate_student_performance (lines 45-49)
CreateStudent ==
    /\ pc = "gen_loop"
    /\ i < num_students
    /\ LET r1 == rng
           r2 == Advance(r1)
           r3 == Advance(r2)
           r4 == Advance(r3)
       IN  /\ student_id' = StudentId(i)
           /\ student_name' = random_choice(r1, FIRST_NAMES) \o " " \o random_choice(r2, LAST_NAMES)
           /\ student_grade' = random_randint(r3, 4, 12)
           /\ base_skill' = random_uniform(r4, 50, 90)
           /\ rng' = Advance(r4)
    /\ responses' = <<>>
    /\ current_time' = start_time
    /\ grade' = FirstGrade
    /\ pc' = "sim_grade"
    /\ UNCHANGED <<num_students, i, all_rows, returned, file, stdout, students,
                   sid_k, stopped_early, comp_i, q_type, seq>>

\* the call returns; for resp in responses: all_rows.append(...)
FlattenResponses ==
    /\ pc = "sim_return"
    /\ all_rows' = Flatten(all_rows, student_id, student_name, student_grade, responses)
    /\ returned' = Append(returned, responses)
    /\ i' = i + 1
    /\ pc' = "gen_loop"
    /\ UNCHANGED <<rng, num_students, student_id, student_name, file, stdout,
                   students, sid_k, simVars>>

\* if all_rows: write the file, print the two lines
WriteCsv ==
    /\ pc = "gen_loop"
    /\ i >= num_students
    /\ HasRows(all_rows)
    /\ file' = [exists |-> TRUE, lines |-> CsvLines(all_rows)]
    /\ stdout' = stdout \o
          <<"Generated " \o ToString(Len(all_rows)) \o " responses for "
                \o ToString(num_students) \o " students",
            "Saved to: data/sample_quiz_results.csv">>
    /\ pc' = "summary"
    /\ UNCHANGED <<rng, num_students, i, student_id, student_name, all_rows,
                   returned, students, sid_k, simVars>>

\* if all_rows: is false, the function returns
SkipWrite ==
    /\ pc = "gen_loop"
    /\ i >= num_students
    /\ ~HasRows(all_rows)
    /\ pc' = "done"
    /\ UNCHANGED <<rng, genVars, simVars>>

\* students = set(...); for sid in list(students)[:3]
SummaryOrder ==
    /\ pc = "summary"
    /\ \E o \in ListOrders(StudentIdSet(all_rows)) : students' = FirstThree(o)
    /\ sid_k' = 1
    /\ pc' = "summary_loop"
    /\ UNCHANGED <<rng, num_students, i, student_id, student_name, all_rows,
                   returned, file, stdout, simVars>>

\* the body of the summary loop: one line printed
PrintSummaryLine ==
    /\ pc = "summary_loop"
    /\ sid_k <= Len(students)
    /\ LET student_rows == StudentRows(all_rows, students[sid_k])
       IN  IF Len(student_rows) = 0
           THEN /\ pc' = "ZeroDivisionError"
                /\ UNCHANGED <<stdout, sid_k>>
           ELSE /\ stdout' = Append(stdout, SummaryLine(students[sid_k], student_rows))
                /\ sid_k' = sid_k + 1
                /\ pc' = pc
    /\ UNCHANGED <<rng, num_students, i, student_id, student_name, all_rows,
                   returned, file, students, simVars>>

\* the summary loop is exhausted
SummaryDone ==
    /\ pc = "summary_loop"
    /\ sid_k > Len(students)
    /\ pc' = "done"
    /\ UNCHANGED <<rng, genVars, simVars>>

Init ==
    /\ pc = "gen_loop"
    /\ rng \in GenSeeds
    /\ num_students \in 0..MaxStudents
    /\ i = 0 /\ student_id = "" /\ student_name = ""
    /\ all_rows = <<>> /\ returned = <<>>
    /\ file = [exists |-> FALSE, lines |-> <<>>]
    /\ stdout = <<>> /\ students = <<>> /\ sid_k = 0
    /\ student_grade = 0 /\ base_skill = 0
    /\ responses = <<>>
    /\ stopped_early = FALSE
    /\ current_time = start_time
    /\ grade = FirstGrade
    /\ comp_i = 0 /\ q_type = 0 /\ seq = 0

Next ==
    \/ CreateStudent
    \/ EnterGrade
    \/ ExitGradeLoop
    \/ TimeLimitBreak
    \/ BeginCompetency
    \/ EndGrade
    \/ AnswerQuestion
    \/ FlattenResponses
    \/ WriteCsv
    \/ SkipWrite
    \/ SummaryOrder
    \/ PrintSummaryLine
    \/ SummaryDone

Spec == Init /\ [][Next]_vars

----------------------------------------------------------------------------
(* Helpers of the properties *)

\* t1 is not later than t2, for two isoformat() values: the first field
\* from k on in which they differ decides
RECURSIVE IsoLeqFrom(_, _, _)
IsoLeqFrom(t1, t2, k) ==
    IF k > Len(t1) THEN TRUE
    ELSE IF t1[k] < t2[k] THEN TRUE
    ELSE IF t1[k] > t2[k] THEN FALSE
    ELSE IsoLeqFrom(t1, t2, k + 1)

IsoLeq(t1, t2) == IsoLeqFrom(t1, t2, 1)

\* the responses of grade g, in emission order
OfGrade(resps, g) == SelectSeq(resps, LAMBDA r : r.grade_tag = GradeTag(g))

\* the k-th question of a competency: type, then sequence
TypeAt(k) == (k + 1) \div 2
SeqAt(k) == ((k - 1) % 2) + 1

\* the simulated time has reached the budget at the head of a loop
BudgetFound ==
    /\ pc \in {"sim_grade", "sim_comp"}
    /\ current_time - start_time >= 5400

\* the response fields of a row
ResponseOfRow(row) ==
    [question_id    |-> row.question_id,
     grade_tag      |-> row.grade_tag,
     competency_tag |-> row.competency_tag,
     type_tag       |-> row.type_tag,
     is_correct     |-> row.is_correct,
     timestamp      |-> row.timestamp]

\* the number of rows of the students before the k-th
RECURSIVE RowsBefore(_)
RowsBefore(k) == IF k <= 1 THEN 0 ELSE RowsBefore(k - 1) + Len(returned[k - 1])

----------------------------------------------------------------------------
(* Properties *)

C2_EveryGradeAttempted ==
    pc = "sim_return" =>
        \A g \in 4..12 : \E k \in 1..Len(responses) : responses[k].grade_tag = GradeTag(g)

\* C3: the summary lines printed after the two header lines are those of
\* STU001, STU002, STU003 (as many of them as there are students), in
\* that order, and of no other student.
C3_SummaryOfFirstThreeInOrder ==
    (pc = "done" /\ num_students >= 1) =>
        /\ Len(stdout) = 2 + Min(3, num_students)
        /\ \A k \in 1..Min(3, num_students) :
              stdout[2 + k] = SummaryLine(StudentId(k - 1), StudentRows(all_rows, StudentId(k - 1)))

\* C4: every student has response rows, so the summary never divides by
\* zero: once the simulator is past grade 4 its first 24 records are the
\* 24 grade-4 records and no other record is of grade 4.
C4_Grade4NeverTruncated ==
    /\ pc # "ZeroDivisionError"
    /\ (pc = "sim_return" \/ (pc \in {"sim_grade", "sim_comp", "sim_question"} /\ grade > 4)) =>
          /\ Len(responses) >= 24
          /\ \A k \in 1..Len(responses) :
                (responses[k].grade_tag = "Grade-4") <=> (k <= 24)
    /\ pc \in {"summary", "summary_loop", "done"} =>
          \A k \in 0..(num_students - 1) : Len(StudentRows(all_rows, StudentId(k))) >= 24

C4_Witness ==
    /\ pc = "summary_loop"
    /\ sid_k > 1
    /\ \E k \in 1..Len(all_rows) :
          /\ all_rows[k].question_id = "G4_GEOM-Reasoning_T3_02"
          /\ all_rows[k].timestamp = <<2026, 2, 1, 9, 12, 0>>

\* C5: no two records of one returned record sequence have the same
\* question_id, nor the same (grade, competency, type) tags and question_id.
C5_QuestionIdsUnique ==
    pc = "sim_return" =>
        \A a, b \in 1..Len(responses) :
            responses[a].question_id = responses[b].question_id => a = b

C5_Witness == pc = "sim_return" /\ Len(responses) = 210

\* C6: the timestamps of a record sequence never decrease from one record
\* to the next, and a record carries the clock as it is after the
\* question's duration was added.
C6_ClockMonotone ==
    pc \in {"sim_grade", "sim_comp", "sim_question", "sim_return"} =>
        /\ \A k \in 1..(Len(responses) - 1) :
              IsoLeq(responses[k].timestamp, responses[k + 1].timestamp)
        /\ responses # <<>> =>
              responses[Len(responses)].timestamp = isoformat(current_time)
        /\ responses = <<>> => current_time = start_time

C6_Witness ==
    /\ pc = "sim_question"
    /\ Len(responses) >= 2
    /\ responses[Len(responses)].timestamp[4] > responses[1].timestamp[4]

\* C7: all_rows is the concatenation, in the order STU001, STU002, ..., of
\* the record sequences the simulator returned, each row carrying the id,
\* name and grade level of its student; the file holds one data line per
\* record, so the rows of a student are contiguous.
C7_RowsAreConcatenation ==
    pc \in {"gen_loop", "summary", "summary_loop", "done"} =>
        /\ Len(returned) = i
        /\ Len(all_rows) = RowsBefore(i + 1)
        /\ \A k \in 1..i : \A j \in 1..Len(returned[k]) :
              LET row == all_rows[RowsBefore(k) + j]
                  first == all_rows[RowsBefore(k) + 1]
              IN  /\ row.student_id = StudentId(k - 1)
                  /\ ResponseOfRow(row) = returned[k][j]
                  /\ row.student_name = first.student_name
                  /\ row.student_grade_level = first.student_grade_level
        /\ i >= 1 =>
              /\ all_rows[Len(all_rows)].student_name = student_name
              /\ all_rows[Len(all_rows)].student_grade_level = student_grade
        /\ file.exists =>
              /\ Len(file.lines) = 1 + RowsBefore(i + 1)
              /\ \A j \in 1..Len(all_rows) : file.lines[1 + j] = CsvLine(all_rows[j])

C7_Witness ==
    /\ pc = "done"
    /\ num_students >= 3
    /\ file.exists
    /\ \E k \in 1..Len(returned) : Len(returned[k]) # Len(returned[1])

\* C8: once the elapsed time is at least 5400 s at the head of the
\* competency loop or of the grade loop, no record is added any more: the
\* competency loop is left, every later grade up to 12 is entered and left
\* in turn, and then the function returns.
C8_NoRecordAfterBudget ==
    [][BudgetFound =>
          /\ responses' = responses
          /\ current_time' = current_time
          /\ pc = "sim_grade" /\ grade <= 12 => (pc' = "sim_comp" /\ grade' = grade)
          /\ pc = "sim_grade" /\ grade > 12 => pc' = "sim_return"
          /\ pc = "sim_comp" => (pc' = "sim_grade" /\ grade' = grade + 1)]_vars

C8_Witness ==
    /\ BudgetFound
    /\ pc = "sim_comp"
    /\ grade = 12
    /\ comp_i = 1
    /\ Len(OfGrade(responses, 10)) \in {6, 12, 18}

\* C9: the records of a grade are 6 per started competency: its started
\* competencies are the first ones of the table, each with its 6 questions
\* in the order type 1 seq 1, type 1 seq 2, type 2 seq 1, type 2 seq 2,
\* type 3 seq 1, type 3 seq 2; so a grade holds 0, 6, 12, 18 or 24 records,
\* and 24 when the budget was left at each of its checks.
C9_SixRecordsPerCompetency ==
    /\ pc \in {"sim_grade", "sim_comp", "sim_return"} => Len(responses) % 6 = 0
    /\ pc = "sim_return" =>
          \A g \in 4..12 :
              LET rs == OfGrade(responses, g)
                  n == Len(rs) \div QUESTIONS_PER_COMPETENCY
              IN  /\ Len(rs) = 6 * n
                  /\ n <= 4
                  /\ \A c \in 1..n : \A k \in 1..6 :
                        LET r == rs[6 * (c - 1) + k]
                            comp == GRADE_COMPETENCIES[g][c]
                        IN  /\ r.competency_tag = comp
                            /\ r.type_tag = TypeTag(TypeAt(k))
                            /\ r.question_id = generate_question_id(g, comp, TypeAt(k), SeqAt(k))
                  /\ n < 4 =>
                        LET upto == Cardinality({k \in 1..Len(responses) :
                                        GradeOfTag(responses[k].grade_tag) <= g})
                        IN  /\ upto >= 1
                            /\ IsoLeq(isoformat(start_time + 5400), responses[upto].timestamp)

C9_Witness ==
    /\ pc = "sim_return"
    /\ Len(OfGrade(responses, 11)) = 6
    /\ Len(OfGrade(responses, 10)) = 24

\* C10: the fourth competency of grade 12 (GEOM-Trig) is never answered:
\* the budget is used up when the function returns, no record is of
\* grade 12 and GEOM-Trig, and a record sequence has at most 210 records.
C10_TableNeverFullyWalked ==
    /\ ~(pc = "sim_question" /\ grade = 12 /\ comp_i = 4)
    /\ Len(responses) <= 210
    /\ pc = "sim_return" =>
          /\ current_time - start_time >= 5400
          /\ \A k \in 1..Len(responses) :
                /\ ~(responses[k].grade_tag = "Grade-12" /\ responses[k].competency_tag = "GEOM-Trig")
                /\ responses[k].question_id \notin
                      {"G12_GEOM-Trig_T1_01", "G12_GEOM-Trig_T1_02", "G12_GEOM-Trig_T2_01",
                       "G12_GEOM-Trig_T2_02", "G12_GEOM-Trig_T3_01", "G12_GEOM-Trig_T3_02"}

C10_Witness ==
    /\ pc = "sim_return"
    /\ \E k \in 1..Len(responses) : responses[k].question_id = "G12_DATA-Stats_T3_02"

====
